---- MODULE Spec2Model ----
(***************************************************************************)
(* Model of ProbabilitiesLab5.cpp: the weighted sample accumulator         *)
(* (sampleSize, sampleMean, biasedSampleVariance), the statistics resolver *)
(* (calculateStatistics), the three confidence-interval functions, the     *)
(* sample selection loop (loadSample) and main.                            *)
(*                                                                         *)
(* FloatType values are modelled as exact rationals extended with the IEEE *)
(* special values the code can produce (NaN, +-infinity); rounding is not  *)
(* modelled.  A number is a record [k, n, d]: k = "num" is n/d in lowest   *)
(* terms with d > 0, k = "inf" is an infinity of sign n, k = "nan" is NaN, *)
(* k = "sqrt" is the square root of n/d (kept symbolic).  JSON fields use  *)
(* the same records with k = "absent" (no such key) and k = "null".        *)
(***************************************************************************)
EXTENDS Integers, Sequences, FiniteSets, TLC

\* ------------------------------------------------------------------ bounds
MaxLen == 3
MaxValue == 2
MaxWeight == 2
ConfGrid == 3    \* confidences are the multiples of 1/ConfGrid
MaxQ == 6        \* quantile values are drawn from 1..MaxQ
MaxN == 3        \* sample sizes passed to the interval functions: 0..MaxN
MaxVar == 1      \* variances passed to the interval functions: 1..MaxVar
MaxKeys == 2     \* keys of a frequency table
MaxCount == 1    \* counts of a frequency table: 0..MaxCount
MaxKeyValue == 3 \* the one-digit numeric keys are "1" .. MaxKeyValue
MaxFiles == 2    \* files in the samples directory
MaxFailedReads == 3 \* prompts answered by a failed std::cin that are followed

\* ------------------------------------------------- FloatType arithmetic
Abs(x) == IF x < 0 THEN -x ELSE x

Sign(x) == IF x < 0 THEN -1 ELSE IF x = 0 THEN 0 ELSE 1

RECURSIVE GCD(_, _)
GCD(a, b) == IF b = 0 THEN a ELSE GCD(b, a % b)

Num(n, d) ==
    LET g == GCD(Abs(n), Abs(d))
    IN  [k |-> "num", n |-> Sign(d) * (n \div g), d |-> Abs(d) \div g]

NaN == [k |-> "nan", n |-> 0, d |-> 1]
Inf(s) == [k |-> "inf", n |-> s, d |-> 1]
Absent == [k |-> "absent", n |-> 0, d |-> 1]
Null == [k |-> "null", n |-> 0, d |-> 1]
Int2F(i) == Num(i, 1)

IsNum(a) == a.k = "num"

FNeg(a) ==
    IF a.k = "nan" THEN NaN
    ELSE IF a.k = "inf" THEN Inf(-a.n)
    ELSE Num(-a.n, a.d)

FAdd(a, b) ==
    IF a.k = "nan" \/ b.k = "nan" THEN NaN
    ELSE IF a.k = "inf" /\ b.k = "inf" THEN (IF a.n = b.n THEN a ELSE NaN)
    ELSE IF a.k = "inf" THEN a
    ELSE IF b.k = "inf" THEN b
    ELSE Num(a.n * b.d + b.n * a.d, a.d * b.d)

FSub(a, b) == FAdd(a, FNeg(b))

FMul(a, b) ==
    IF a.k = "nan" \/ b.k = "nan" THEN NaN
    ELSE IF a.k = "inf" \/ b.k = "inf"
         THEN (IF Sign(a.n) * Sign(b.n) = 0 THEN NaN ELSE Inf(Sign(a.n) * Sign(b.n)))
    ELSE Num(a.n * b.n, a.d * b.d)

\* x/0 is an infinity and 0/0 is NaN, as for IEEE doubles (the sign of a
\* zero divisor is not tracked).
FDiv(a, b) ==
    IF a.k = "nan" \/ b.k = "nan" THEN NaN
    ELSE IF a.k = "inf" /\ b.k = "inf" THEN NaN
    ELSE IF a.k = "inf" THEN Inf(IF b.n < 0 THEN -a.n ELSE a.n)
    ELSE IF b.k = "inf" THEN Num(0, 1)
    ELSE IF b.n = 0 THEN (IF a.n = 0 THEN NaN ELSE Inf(Sign(a.n)))
    ELSE Num(a.n * b.d, a.d * b.n)

FSqrt(a) ==
    IF a.k = "nan" THEN NaN
    ELSE IF a.k = "inf" THEN (IF a.n > 0 THEN a ELSE NaN)
    ELSE IF a.n < 0 THEN NaN
    ELSE [k |-> "sqrt", n |-> a.n, d |-> a.d]

\* a < b for two finite numbers
FLess(a, b) == IsNum(a) /\ IsNum(b) /\ a.n * b.d < b.n * a.d

\* ------------------------------------------- weighted sample accumulator
\* A range of std::pair<T, T> is a sequence of <<value, amount>> pairs of
\* FloatType numbers.

RECURSIVE sampleSizeFrom(_, _, _)
sampleSizeFrom(values, i, count) ==
    IF i > Len(values) THEN count
    ELSE sampleSizeFrom(values, i + 1, FAdd(count, values[i][2]))

sampleSize(values) == sampleSizeFrom(values, 1, Int2F(0))

RECURSIVE sampleMeanFrom(_, _, _, _)
sampleMeanFrom(values, i, mean, count) ==
    IF i > Len(values) THEN mean
    ELSE LET value == values[i][1]
             amount == values[i][2]
             count2 == FAdd(count, amount)
             mean2 == FAdd(mean, FDiv(FMul(amount, FSub(value, mean)), count2))
         IN  sampleMeanFrom(values, i + 1, mean2, count2)

sampleMean(values) == sampleMeanFrom(values, 1, Int2F(0), Int2F(0))

biasedSampleVariance(values) ==
    LET mean == sampleMean(values)
        dev(p) == <<FMul(FSub(p[1], mean), FSub(p[1], mean)), p[2]>>
    IN  sampleMean([i \in 1..Len(values) |-> dev(values[i])])

makeVarSeries(values) == [i \in 1..Len(values) |-> <<values[i], Int2F(1)>>]

\* --------------------------------------------------------------- state
VARIABLES
    series,     \* accumulator: the range of (value, amount) pairs passed in
    ret,        \* accumulator: the last call and the value it returned
    chi,        \* the quantile function of the distributions, on the grid
    argN,       \* interval functions: the sampleSize argument
    argVar,     \* interval functions: the variance argument
    prev,       \* interval functions: the previous varianceConfidenceInterval call
    cur,        \* interval functions: the last call and its outcome
    pc,         \* main: position in the run
    nFiles,     \* loadSample: sampleFiles.size()
    sampleIndex,\* loadSample: the local sampleIndex
    cinFailed,  \* loadSample: std::cin is in a failed state
    input,      \* main: the sample as parsed from the chosen file
    sample,     \* main: the json object `sample`
    err,        \* main: the exception that ended the run, and where it was thrown
    shown,      \* main: the parameter and statistic names printed
    printed     \* main: the intervals printed

accVars == <<series, ret>>
ivVars == <<chi, argN, argVar, prev, cur>>
mainVars == <<pc, nFiles, sampleIndex, cinFailed, input, sample, err, shown, printed>>
vars == <<accVars, ivVars, mainVars>>

\* ------------------------------------------ specification: accumulator
RECURSIVE SeqsUpTo(_, _)
SeqsUpTo(S, n) ==
    IF n = 0 THEN {<<>>}
    ELSE LET shorter == SeqsUpTo(S, n - 1)
         IN  shorter \cup {Append(q, x) : q \in {r \in shorter : Len(r) = n - 1}, x \in S}

RawExample8 == <<2, 4, 4, 4, 5, 5, 7, 9>>

IntsToF(raw) == [i \in 1..Len(raw) |-> Int2F(raw[i])]

Pairs == {<<Int2F(v), Int2F(w)>> : v \in 0..MaxValue, w \in 0..MaxWeight}

AccInputs == SeqsUpTo(Pairs, MaxLen) \cup {makeVarSeries(IntsToF(RawExample8))}

NoRet == [fn |-> "none", val |-> Absent]

CallSampleSize ==
    /\ ret' = [fn |-> "sampleSize", val |-> sampleSize(series)]
    /\ UNCHANGED <<series, ivVars, mainVars>>

CallSampleMean ==
    /\ ret' = [fn |-> "sampleMean", val |-> sampleMean(series)]
    /\ UNCHANGED <<series, ivVars, mainVars>>

CallBiasedSampleVariance ==
    /\ ret' = [fn |-> "biasedSampleVariance", val |-> biasedSampleVariance(series)]
    /\ UNCHANGED <<series, ivVars, mainVars>>

\* --------------------------------------- distribution quantile provider
\* boost::math::quantile under the default error policy.  The value of a
\* quantile is not computed: `chi` is some positive, strictly increasing
\* function of the probability, given on the grid p = j / (2 * ConfGrid),
\* 0 < p < 1.  What is modelled exactly is when the call throws: the
\* distributions' constructors reject degrees of freedom <= 0, every
\* quantile rejects a probability outside [0, 1] (std::domain_error), the
\* normal and Student quantiles overflow at p = 0 and p = 1 and the
\* chi-squared quantile is 0 at p = 0 and overflows at p = 1
\* (std::overflow_error).
GridPoints == 1..(2 * ConfGrid - 1)

PIndex(p) == (p.n * 2 * ConfGrid) \div p.d

Thrown(e) == [ok |-> FALSE, err |-> e, val |-> NaN]
Value(v) == [ok |-> TRUE, err |-> "none", val |-> v]

quantile(q, dist, df, p) ==
    IF dist # "normal" /\ ~(IsNum(df) /\ df.n > 0) THEN Thrown("domain_error")
    ELSE IF ~IsNum(p) \/ p.n < 0 \/ p.n > p.d THEN Thrown("domain_error")
    ELSE IF p.n = p.d THEN Thrown("overflow_error")
    ELSE IF p.n = 0
         THEN (IF dist = "chi_squared" THEN Value(Int2F(0)) ELSE Thrown("overflow_error"))
    ELSE IF dist = "chi_squared" THEN Value(Int2F(q[PIndex(p)]))
    ELSE Value(Int2F(q[PIndex(p)] - q[ConfGrid]))

\* -------------------------------------------- confidence intervals
\* The bounds mean -/+ epsilon of the two mean intervals are kept symbolic:
\* epsilon = scale * q with scale = sqrt(variance / sampleSize).
MeanBound(statMean, sign, scale, q) ==
    [k |-> "bound", mean |-> statMean, sign |-> sign, scale |-> scale, q |-> q]

Failed(e) == [status |-> e, lo |-> NaN, hi |-> NaN]
Interval(lo, hi) == [status |-> "ok", lo |-> lo, hi |-> hi]

meanConfidenceIntervalWithKnownVariance(q, size, statMean, variance, confidence) ==
    LET qu == quantile(q, "normal", Absent, FDiv(FAdd(confidence, Int2F(1)), Int2F(2)))
        scale == FSqrt(FDiv(variance, size))
    IN  IF ~qu.ok THEN Failed(qu.err)
        ELSE Interval(MeanBound(statMean, -1, scale, qu.val),
                      MeanBound(statMean, 1, scale, qu.val))

meanConfidenceIntervalWithUnknownVariance(q, size, statMean, statUnbiasedVariance, confidence) ==
    LET qu == quantile(q, "students_t", FSub(size, Int2F(1)),
                       FDiv(FAdd(confidence, Int2F(1)), Int2F(2)))
        scale == FSqrt(FDiv(statUnbiasedVariance, size))
    IN  IF ~qu.ok THEN Failed(qu.err)
        ELSE Interval(MeanBound(statMean, -1, scale, qu.val),
                      MeanBound(statMean, 1, scale, qu.val))

\* the two chi-squared quantiles taken the other way round
varianceConfidenceIntervalSwapped(q, size, statUnbiasedVariance, confidence) ==
    LET df == FSub(size, Int2F(1))
        chi1 == quantile(q, "chi_squared", df, FDiv(FSub(Int2F(1), confidence), Int2F(2)))
        chi2 == quantile(q, "chi_squared", df, FDiv(FAdd(Int2F(1), confidence), Int2F(2)))
    IN  IF ~chi1.ok THEN Failed(chi1.err)
        ELSE IF ~chi2.ok THEN Failed(chi2.err)
        ELSE Interval(FDiv(FMul(statUnbiasedVariance, df), chi1.val),
                      FDiv(FMul(statUnbiasedVariance, df), chi2.val))

varianceConfidenceInterval(q, size, statUnbiasedVariance, confidence) ==
    LET df == FSub(size, Int2F(1))
        chi1 == quantile(q, "chi_squared", df, FDiv(FAdd(Int2F(1), confidence), Int2F(2)))
        chi2 == quantile(q, "chi_squared", df, FDiv(FSub(Int2F(1), confidence), Int2F(2)))
    IN  IF ~chi1.ok THEN Failed(chi1.err)
        ELSE IF ~chi2.ok THEN Failed(chi2.err)
        ELSE Interval(FDiv(FMul(statUnbiasedVariance, df), chi1.val),
                      FDiv(FMul(statUnbiasedVariance, df), chi2.val))

\* ------------------------------------ specification: interval functions
Increasing(S) == [j \in 1..Cardinality(S) |->
                    CHOOSE x \in S : Cardinality({y \in S : y < x}) = j - 1]

Quantiles == {Increasing(S) : S \in {T \in SUBSET (1..MaxQ) : Cardinality(T) = 2 * ConfGrid - 1}}

Confidences == {Num(c, ConfGrid) : c \in (-(ConfGrid + 1))..(ConfGrid + 1)}

ArgMean == Int2F(5)

NoCall == [fn |-> "none", confidence |-> Absent, res |-> Failed("none")]

CallKnownVariance ==
    \E c \in Confidences :
        /\ cur' = [fn |-> "meanConfidenceIntervalWithKnownVariance", confidence |-> c,
                   res |-> meanConfidenceIntervalWithKnownVariance(chi, argN, ArgMean, argVar, c)]
        /\ UNCHANGED <<chi, argN, argVar, prev, accVars, mainVars>>

CallUnknownVariance ==
    \E c \in Confidences :
        /\ cur' = [fn |-> "meanConfidenceIntervalWithUnknownVariance", confidence |-> c,
                   res |-> meanConfidenceIntervalWithUnknownVariance(chi, argN, ArgMean, argVar, c)]
        /\ UNCHANGED <<chi, argN, argVar, prev, accVars, mainVars>>

CallVarianceInterval ==
    \E c \in Confidences :
        /\ cur' = [fn |-> "varianceConfidenceInterval", confidence |-> c,
                   res |-> varianceConfidenceInterval(chi, argN, argVar, c)]
        /\ prev' = IF cur.fn = "varianceConfidenceInterval" THEN cur ELSE prev
        /\ UNCHANGED <<chi, argN, argVar, accVars, mainVars>>

\* ------------------------------------------------------------ json sample
\* The json object `sample`.  values is the array of raw numbers and
\* variationalSeries the object mapping each key (a string, modelled as a
\* sequence of characters) to its count; hasValues / hasSeries say whether
\* the key is there.  params and statistics carry `present` (the key is in
\* sample) and their fields as json values; the params fields mean and
\* standardDeviation, which the program only prints, are left out.  The
\* three flags are "absent", "null", "true" or "false".

DigitChars == <<"0", "1", "2", "3", "4", "5", "6", "7", "8", "9">>

IsDigit(c) == \E i \in 1..Len(DigitChars) : DigitChars[i] = c

DigitVal(c) == (CHOOSE i \in 1..Len(DigitChars) : DigitChars[i] = c) - 1

\* character codes as std::string compares them
CharCode(c) == IF c = " " THEN 32 ELSE IF IsDigit(c) THEN 48 + DigitVal(c) ELSE 97

RECURSIVE KeyLess(_, _)
KeyLess(a, b) ==
    IF Len(b) = 0 THEN FALSE
    ELSE IF Len(a) = 0 THEN TRUE
    ELSE IF CharCode(Head(a)) # CharCode(Head(b)) THEN CharCode(Head(a)) < CharCode(Head(b))
    ELSE KeyLess(Tail(a), Tail(b))

\* std::map<std::string, FloatType> iterates its keys in increasing order
RECURSIVE SortedKeys(_)
SortedKeys(S) ==
    IF S = {} THEN <<>>
    ELSE LET least == CHOOSE x \in S : \A y \in S \ {x} : KeyLess(x, y)
         IN  <<least>> \o SortedKeys(S \ {least})

\* std::stod on the characters the model has (space, digits, letter):
\* leading white space is skipped, the longest run of digits is converted
\* and what follows it is ignored; with no digit there,
\* std::invalid_argument is thrown.
RECURSIVE SkipSpaces(_)
SkipSpaces(str) ==
    IF Len(str) > 0 /\ Head(str) = " " THEN SkipSpaces(Tail(str)) ELSE str

RECURSIVE ParseDigits(_, _, _)
ParseDigits(str, acc, any) ==
    IF Len(str) > 0 /\ IsDigit(Head(str))
    THEN ParseDigits(Tail(str), 10 * acc + DigitVal(Head(str)), TRUE)
    ELSE IF any THEN Value(Int2F(acc)) ELSE Thrown("invalid_argument")

stod(str) == ParseDigits(SkipSpaces(str), 0, FALSE)

\* json operator[] on a non-const object inserts null for a missing key
Touch(v) == IF v = Absent THEN Null ELSE v

\* get<FloatType>() throws json type_error on null
IsFloat(v) == v.k \in {"num", "nan", "inf", "sqrt"}

touchSampleSize(s) ==
    [s EXCEPT !.params.present = TRUE, !.params.sampleSize = Touch(@)]

\* ---------------------------------------------------- statistics resolver
calculateStatisticsOf(s, varSeries) ==
    LET s1 == touchSampleSize(s)
    IN  [s1 EXCEPT !.statistics.present = TRUE,
                   !.statistics.mean = sampleMean(varSeries),
                   !.statistics.biasedVariance = biasedSampleVariance(varSeries),
                   !.params.sampleSize = sampleSize(varSeries)]

\* the count of a key dropped: every key weighs 1
keyValuePairUnweighted(key, count) == <<stod(key).val, Int2F(1)>>

keyValuePair(key, count) == <<stod(key).val, Int2F(count)>>

seriesOfMap(keysValues) ==
    LET keys == SortedKeys(DOMAIN keysValues)
    IN  [i \in 1..Len(keys) |-> keyValuePair(keys[i], keysValues[keys[i]])]

\* the correction factor inverted
unbiasedFromBiasedInverted(biased, size) == FDiv(FMul(biased, FSub(size, Int2F(1))), size)

unbiasedFromBiased(biased, size) == FDiv(FMul(biased, size), FSub(size, Int2F(1)))

biasedFromUnbiased(unbiased, size) == FDiv(FMul(unbiased, FSub(size, Int2F(1))), size)

\* lines 145-155: bias conversion and the standard deviations
convertVariances(s) ==
    LET size == s.params.sampleSize
        st == [s.statistics EXCEPT !.present = TRUE]
        st1 == IF st.biasedVariance # Absent
               THEN [st EXCEPT !.unbiasedVariance = unbiasedFromBiased(st.biasedVariance, size)]
               ELSE IF st.unbiasedVariance # Absent
               THEN [st EXCEPT !.biasedVariance = biasedFromUnbiased(st.unbiasedVariance, size)]
               ELSE st
        st2 == IF st1.biasedVariance # Absent
               THEN [st1 EXCEPT !.biasedStandardDeviation = FSqrt(st1.biasedVariance),
                                !.unbiasedStandardDeviation = FSqrt(st1.unbiasedVariance)]
               ELSE st1
    IN  [s EXCEPT !.statistics = st2]

Ran(s, e) == [sample |-> s, err |-> e]

calculateStatistics(s) ==
    LET badKey == \E key \in DOMAIN s.variationalSeries : ~stod(key).ok
        s1 == IF s.hasValues
              THEN calculateStatisticsOf(s, makeVarSeries(IntsToF(s.values)))
              ELSE IF s.hasSeries /\ ~badKey
              THEN calculateStatisticsOf(s, seriesOfMap(s.variationalSeries))
              ELSE IF s.hasSeries THEN touchSampleSize(s)
              ELSE s
        s2 == touchSampleSize(s1)
    IN  IF ~s.hasValues /\ s.hasSeries /\ badKey THEN Ran(s1, "invalid_argument")
        ELSE IF ~IsFloat(s2.params.sampleSize) THEN Ran(s2, "type_error")
        ELSE Ran(convertVariances(s2), "none")

\* ------------------------------------------------------------------ main
IntervalNames == {"meanConfidenceIntervalWithKnownVariance",
                  "meanConfidenceIntervalWithUnknownVariance",
                  "varianceConfidenceInterval"}

Field(s, f) ==
    CASE f = "sampleSize" -> s.params.sampleSize
      [] f = "variance" -> s.params.variance
      [] f = "mean" -> s.statistics.mean
      [] f = "unbiasedVariance" -> s.statistics.unbiasedVariance
      [] f = "confidence" -> s.confidence

\* sample["params"][f], sample["statistics"][f] or sample["confidence"]
TouchField(s, f) ==
    CASE f = "sampleSize" -> [s EXCEPT !.params.present = TRUE, !.params.sampleSize = Touch(@)]
      [] f = "variance" -> [s EXCEPT !.params.present = TRUE, !.params.variance = Touch(@)]
      [] f = "mean" -> [s EXCEPT !.statistics.present = TRUE, !.statistics.mean = Touch(@)]
      [] f = "unbiasedVariance" ->
            [s EXCEPT !.statistics.present = TRUE, !.statistics.unbiasedVariance = Touch(@)]
      [] f = "confidence" -> [s EXCEPT !.confidence = Touch(@)]

\* a null read as 0 instead of throwing
getFloatOrZero(v) == IF IsFloat(v) THEN Value(v) ELSE Value(Int2F(0))

\* the conversion of a json value to FloatType
getFloat(v) == IF IsFloat(v) THEN Value(v) ELSE Thrown("type_error")

\* the declarations FloatType x = sample[...][...]; of an interval's block,
\* in order, up to the first that throws
RECURSIVE readFields(_, _)
readFields(s, fs) ==
    IF Len(fs) = 0 THEN Ran(s, "none")
    ELSE LET s1 == TouchField(s, Head(fs))
         IN  IF ~getFloat(Field(s1, Head(fs))).ok THEN Ran(s1, "type_error")
             ELSE readFields(s1, Tail(fs))

FieldsOf(name) ==
    CASE name = "meanConfidenceIntervalWithKnownVariance" ->
            <<"sampleSize", "mean", "variance", "confidence">>
      [] name = "meanConfidenceIntervalWithUnknownVariance" ->
            <<"sampleSize", "mean", "unbiasedVariance", "confidence">>
      [] name = "varianceConfidenceInterval" ->
            <<"sampleSize", "unbiasedVariance", "confidence">>

Compute(q, s, name) ==
    CASE name = "meanConfidenceIntervalWithKnownVariance" ->
            meanConfidenceIntervalWithKnownVariance(
                q, getFloat(s.params.sampleSize).val, getFloat(s.statistics.mean).val,
                getFloat(s.params.variance).val, getFloat(s.confidence).val)
      [] name = "meanConfidenceIntervalWithUnknownVariance" ->
            meanConfidenceIntervalWithUnknownVariance(
                q, getFloat(s.params.sampleSize).val, getFloat(s.statistics.mean).val,
                getFloat(s.statistics.unbiasedVariance).val, getFloat(s.confidence).val)
      [] name = "varianceConfidenceInterval" ->
            varianceConfidenceInterval(
                q, getFloat(s.params.sampleSize).val,
                getFloat(s.statistics.unbiasedVariance).val, getFloat(s.confidence).val)

NotPrinted == Failed("none")

\* one if (sample[name].get<bool>()) { ... } block of main
intervalBlock(q, s, name) ==
    LET flag == s.flags[name]
        read == readFields(s, FieldsOf(name))
        res == Compute(q, read.sample, name)
    IN  IF flag \notin {"true", "false"}
        THEN [sample |-> [s EXCEPT !.flags[name] = "null"], err |-> "type_error",
              res |-> NotPrinted]
        ELSE IF flag = "false" THEN [sample |-> s, err |-> "none", res |-> NotPrinted]
        ELSE IF read.err # "none"
        THEN [sample |-> read.sample, err |-> read.err, res |-> NotPrinted]
        ELSE IF res.status # "ok"
        THEN [sample |-> read.sample, err |-> res.status, res |-> NotPrinted]
        ELSE [sample |-> read.sample, err |-> "none", res |-> res]

\* ---- the sample files the model reads
Dataset(hasValues, values, hasSeries, table) ==
    [hasValues |-> hasValues, values |-> values,
     hasSeries |-> hasSeries, variationalSeries |-> table]

NoDataset == Dataset(FALSE, <<>>, FALSE, <<>>)

NumericKeys == {<<DigitChars[v + 1]>> : v \in 1..MaxKeyValue} \cup {<<"1", "2">>}

OtherKeys == {<<"1", "a">>, <<>>, <<"a">>, <<" ", "2">>}

TableKeys == NumericKeys \cup OtherKeys

ExampleTable == [key \in {<<"1">>, <<"2">>, <<"3">>} |-> 2]

Tables ==
    UNION {[S -> 0..MaxCount] : S \in {T \in SUBSET TableKeys : Cardinality(T) <= MaxKeys}}
    \cup {ExampleTable}

RawValues == SeqsUpTo(0..MaxValue, MaxLen) \cup {RawExample8}

Datasets ==
    {NoDataset}
    \cup {Dataset(TRUE, v, FALSE, <<>>) : v \in RawValues}
    \cup {Dataset(FALSE, <<>>, TRUE, t) : t \in Tables}
    \cup {Dataset(TRUE, <<1, 2>>, TRUE, ExampleTable)}

CoreDatasets ==
    {NoDataset,
     Dataset(TRUE, <<1, 2>>, FALSE, <<>>),
     Dataset(FALSE, <<>>, TRUE, [key \in {<<"1">>, <<"2">>} |-> IF key = <<"1">> THEN 1 ELSE 2]),
     Dataset(FALSE, <<>>, TRUE, [key \in {<<"a">>} |-> 1])}

NoParams == [present |-> FALSE, sampleSize |-> Absent, variance |-> Absent]

ParamsChoices ==
    {NoParams}
    \cup {[present |-> TRUE, sampleSize |-> n, variance |-> v] :
            n \in {Absent, Int2F(1), Int2F(5)}, v \in {Absent, Int2F(4)}}

NoStatistics ==
    [present |-> FALSE, mean |-> Absent, biasedVariance |-> Absent,
     unbiasedVariance |-> Absent, biasedStandardDeviation |-> Absent,
     unbiasedStandardDeviation |-> Absent]

StatisticsChoices ==
    {NoStatistics}
    \cup {[NoStatistics EXCEPT !.present = TRUE, !.biasedVariance = b, !.unbiasedVariance = u] :
            b \in {Absent, Int2F(2)}, u \in {Absent, Int2F(3)}}

Config(params, statistics, confidence, flags) ==
    [params |-> params, statistics |-> statistics, confidence |-> confidence, flags |-> flags]

NoConfig == Config(NoParams, NoStatistics, Absent, [name \in IntervalNames |-> "absent"])

Configs ==
    {Config(p, st, c, fl) :
        p \in ParamsChoices, st \in StatisticsChoices,
        c \in {Absent, Num(1, ConfGrid), Num(ConfGrid + 1, ConfGrid)},
        fl \in [IntervalNames -> {"absent", "true", "false"}]}

PlainConfigs ==
    {Config(p, NoStatistics, Num(1, ConfGrid), [name \in IntervalNames |-> "true"]) :
        p \in {NoParams, [present |-> TRUE, sampleSize |-> Int2F(5), variance |-> Int2F(4)]}}

MakeSample(d, c) ==
    [hasValues |-> d.hasValues, values |-> d.values,
     hasSeries |-> d.hasSeries, variationalSeries |-> d.variationalSeries,
     params |-> c.params, statistics |-> c.statistics,
     confidence |-> c.confidence, flags |-> c.flags]

\* every dataset under a plain configuration, and a few datasets under
\* every configuration
Samples ==
    {MakeSample(d, c) : d \in Datasets, c \in PlainConfigs}
    \cup {MakeSample(d, c) : d \in CoreDatasets, c \in Configs}

\* ---- loadSample: one pass of the while loop, the stream being good
Prompt ==
    /\ pc = "loadSample"
    /\ ~cinFailed
    /\ \E entered \in (-1)..(MaxFiles + 1) :
          /\ sampleIndex' = entered - 1
          /\ pc' = IF 0 <= entered - 1 /\ entered - 1 < nFiles THEN "read" ELSE "loadSample"
    /\ UNCHANGED <<nFiles, cinFailed, input, sample, err, shown, printed, accVars, ivVars>>

\* ---- loadSample: one pass of the loop when the extraction fails (end of
\* input, or not a number): the first failure stores 0, later ones leave
\* sampleIndex alone; either way it is then decremented.
PromptFailed ==
    /\ pc = "loadSample"
    /\ sampleIndex > -MaxFailedReads
    /\ sampleIndex' = (IF cinFailed THEN sampleIndex ELSE 0) - 1
    /\ cinFailed' = TRUE
    /\ UNCHANGED <<pc, nFiles, input, sample, err, shown, printed, accVars, ivVars>>

\* an exception nothing catches ends the run; `at` is where it was thrown
NoError == [what |-> "none", at |-> "none"]

Raised(e, at) == IF e = "none" THEN NoError ELSE [what |-> e, at |-> at]

\* ---- loadSample returns json::parse of the chosen file; sampleFiles and
\* sampleIndex are its locals and end with it.
ReadSample ==
    /\ pc = "read"
    /\ \E s \in Samples :
          /\ sample' = s
          /\ input' = s
    /\ pc' = "calculateStatistics"
    /\ nFiles' = 0
    /\ sampleIndex' = -1
    /\ UNCHANGED <<cinFailed, err, shown, printed, accVars, ivVars>>

CalculateStatistics ==
    /\ pc = "calculateStatistics"
    /\ LET r == calculateStatistics(sample)
       IN  /\ sample' = r.sample
           /\ err' = Raised(r.err, pc)
           /\ pc' = IF r.err = "none" THEN "print" ELSE "error"
    /\ UNCHANGED <<nFiles, sampleIndex, cinFailed, input, shown, printed, accVars, ivVars>>

\* lines 168-183: the known parameters and statistics are printed
ShownNames(s) ==
    {"params." \o f : f \in {g \in {"sampleSize", "variance"} :
                                  s.params.present /\ s.params[g] # Absent}}
    \cup
    {"statistics." \o f : f \in {g \in {"mean", "biasedVariance", "unbiasedVariance",
                                         "biasedStandardDeviation",
                                         "unbiasedStandardDeviation"} :
                                      s.statistics.present /\ s.statistics[g] # Absent}}

PrintStatistics ==
    /\ pc = "print"
    /\ shown' = ShownNames(sample)
    /\ pc' = "meanKnown"
    /\ UNCHANGED <<nFiles, sampleIndex, cinFailed, input, sample, err, printed, accVars, ivVars>>

IntervalStep(name, next) ==
    LET r == intervalBlock(chi, sample, name)
    IN  /\ sample' = r.sample
        /\ err' = Raised(r.err, pc)
        /\ printed' = [printed EXCEPT ![name] = r.res]
        /\ pc' = IF r.err = "none" THEN next ELSE "error"
        /\ UNCHANGED <<nFiles, sampleIndex, cinFailed, input, shown, accVars, ivVars>>

KnownVarianceInterval ==
    /\ pc = "meanKnown"
    /\ IntervalStep("meanConfidenceIntervalWithKnownVariance", "meanUnknown")

UnknownVarianceInterval ==
    /\ pc = "meanUnknown"
    /\ IntervalStep("meanConfidenceIntervalWithUnknownVariance", "variance")

VarianceInterval ==
    /\ pc = "variance"
    /\ IntervalStep("varianceConfidenceInterval", "done")

\* ------------------------------------------------------- specifications
MainQuantile == [j \in GridPoints |-> j]

InitIdleAcc == series = <<>> /\ ret = NoRet

InitIdleIv ==
    /\ chi = MainQuantile
    /\ argN = Int2F(0)
    /\ argVar = Int2F(0)
    /\ prev = NoCall
    /\ cur = NoCall

InitIdleMain ==
    /\ pc = "idle"
    /\ nFiles = 0
    /\ sampleIndex = -1
    /\ cinFailed = FALSE
    /\ input = MakeSample(NoDataset, NoConfig)
    /\ sample = MakeSample(NoDataset, NoConfig)
    /\ err = NoError
    /\ shown = {}
    /\ printed = [name \in IntervalNames |-> NotPrinted]

\* the program: main
Init ==
    /\ pc = "loadSample"
    /\ nFiles \in 0..MaxFiles
    /\ sampleIndex = -1
    /\ cinFailed = FALSE
    /\ input = MakeSample(NoDataset, NoConfig)
    /\ sample = MakeSample(NoDataset, NoConfig)
    /\ err = NoError
    /\ shown = {}
    /\ printed = [name \in IntervalNames |-> NotPrinted]
    /\ InitIdleAcc
    /\ InitIdleIv

Next ==
    \/ Prompt
    \/ PromptFailed
    \/ ReadSample
    \/ CalculateStatistics
    \/ PrintStatistics
    \/ KnownVarianceInterval
    \/ UnknownVarianceInterval
    \/ VarianceInterval

Spec == Init /\ [][Next]_vars

\* the accumulator functions, called on every bounded range
InitAcc ==
    /\ series \in AccInputs
    /\ ret = NoRet
    /\ InitIdleIv
    /\ InitIdleMain

NextAcc ==
    \/ CallSampleSize
    \/ CallSampleMean
    \/ CallBiasedSampleVariance

SpecAcc == InitAcc /\ [][NextAcc]_vars

\* the interval functions, called with every bounded argument
InitIv ==
    /\ chi \in Quantiles
    /\ argN \in {Int2F(n) : n \in 0..MaxN}
    /\ argVar \in {Int2F(v) : v \in 1..MaxVar}
    /\ prev = NoCall
    /\ cur = NoCall
    /\ InitIdleAcc
    /\ InitIdleMain

NextIv ==
    \/ CallKnownVariance
    \/ CallUnknownVariance
    \/ CallVarianceInterval

SpecIv == InitIv /\ [][NextIv]_vars

\* ================================================================ claims

RECURSIVE SumFrom(_, _)
SumFrom(terms, i) ==
    IF i > Len(terms) THEN Int2F(0) ELSE FAdd(terms[i], SumFrom(terms, i + 1))

TotalWeight(values) == SumFrom([i \in 1..Len(values) |-> values[i][2]], 1)

\* sum(weight * value) / sum(weight)
WeightedMean(values) ==
    FDiv(SumFrom([i \in 1..Len(values) |-> FMul(values[i][2], values[i][1])], 1),
         TotalWeight(values))

\* sum(weight * (value - m)^2) / sum(weight), m the weighted mean
WeightedVariance(values) ==
    LET m == WeightedMean(values)
        d(p) == FMul(p[2], FMul(FSub(p[1], m), FSub(p[1], m)))
    IN  FDiv(SumFrom([i \in 1..Len(values) |-> d(values[i])], 1), TotalWeight(values))

PositiveTotal(values) == FLess(Int2F(0), TotalWeight(values))

\* C1: for every sequence of (value, weight) pairs with weights >= 0 and
\* total weight > 0, in whatever order, and also when its first pairs have
\* weight 0, sampleMean returns the weighted arithmetic mean
\* sum(weight * value) / sum(weight).
C1_SampleMeanIsWeightedMean ==
    (ret.fn = "sampleMean" /\ PositiveTotal(series))
        => ret.val = WeightedMean(series)

\* C2: for every sequence of (value, weight) pairs with weights >= 0 and
\* total weight n > 0, biasedSampleVariance returns
\* sum(weight * (value - m)^2) / n, which is >= 0; the raw values
\* [2,4,4,4,5,5,7,9] give mean 5, biased variance 4 and unbiased variance
\* 32/7 for n = 8.
C2_BiasedVarianceIsWeightedVariance ==
    (ret.fn = "biasedSampleVariance" /\ PositiveTotal(series))
        => /\ ret.val = WeightedVariance(series)
           /\ IsNum(ret.val) /\ ret.val.n >= 0
           /\ series = makeVarSeries(IntsToF(RawExample8))
                => /\ sampleMean(series) = Int2F(5)
                   /\ ret.val = Int2F(4)
                   /\ unbiasedFromBiased(ret.val, sampleSize(series)) = Num(32, 7)

InUnit(c) == FLess(Int2F(0), c) /\ FLess(c, Int2F(1))

\* C5: each of the three interval functions fails, returning no interval,
\* whenever confidence is not strictly between 0 and 1 or the sample size
\* is <= 1, and the failure is a domain error; it returns a pair only when
\* 0 < confidence < 1 and n > 1.
C5_IntervalsRejectBadArguments ==
    cur.fn # "none"
        => /\ cur.res.status = "ok" <=> (InUnit(cur.confidence) /\ FLess(Int2F(1), argN))
           /\ cur.res.status \in {"ok", "domain_error"}

IsVarianceCall(c) == c.fn = "varianceConfidenceInterval"

\* the chi-squared quantile (any positive increasing function) at (1 + c)/2
\* and at (1 - c)/2, c = j / ConfGrid
ChiUpper(c) == Int2F(chi[ConfGrid + c.n * (ConfGrid \div c.d)])
ChiLower(c) == Int2F(chi[ConfGrid - c.n * (ConfGrid \div c.d)])

\* C8: for n > 1, unbiasedVariance > 0 and 0 < confidence < 1,
\* varianceConfidenceInterval returns
\* (unbiasedVariance*(n-1)/chiUpper, unbiasedVariance*(n-1)/chiLower), the
\* first component below the second; and of two calls with the same n and
\* unbiasedVariance and confidences c1 < c2, the one at c2 has the smaller
\* lower bound and the larger upper bound.
C8_VarianceIntervalWidens ==
    LET Applies(c) == IsVarianceCall(c) /\ InUnit(c.confidence) /\ FLess(Int2F(1), argN)
        scaled == FMul(argVar, FSub(argN, Int2F(1)))
    IN  /\ Applies(cur)
            => /\ cur.res.status = "ok"
               /\ cur.res.lo = FDiv(scaled, ChiUpper(cur.confidence))
               /\ cur.res.hi = FDiv(scaled, ChiLower(cur.confidence))
               /\ FLess(cur.res.lo, cur.res.hi)
        /\ \A c1, c2 \in {prev, cur} :
              (Applies(c1) /\ Applies(c2) /\ FLess(c1.confidence, c2.confidence))
                  => /\ FLess(c2.res.lo, c1.res.lo)
                     /\ FLess(c1.res.hi, c2.res.hi)

\* two varianceConfidenceInterval calls at increasing confidences in (0, 1)
C8_Witness ==
    /\ IsVarianceCall(prev) /\ IsVarianceCall(cur)
    /\ InUnit(prev.confidence) /\ InUnit(cur.confidence)
    /\ FLess(prev.confidence, cur.confidence)
    /\ FLess(Int2F(1), argN)
    /\ cur.res.status = "ok" /\ prev.res.status = "ok"

\* ---- the run of main
BeforeStatistics == pc \in {"loadSample", "read", "calculateStatistics"}

IsNumericKey(key) == Len(key) > 0 /\ \A i \in 1..Len(key) : IsDigit(key[i])

RECURSIVE DecimalValue(_)
DecimalValue(key) ==
    IF Len(key) = 0 THEN 0
    ELSE 10 * DecimalValue(SubSeq(key, 1, Len(key) - 1)) + DigitVal(key[Len(key)])

RECURSIVE CountOf(_, _)
CountOf(table, keys) ==
    IF keys = {} THEN 0
    ELSE LET key == CHOOSE x \in keys : TRUE
         IN  table[key] + CountOf(table, keys \ {key})

\* the values of a frequency table with the number of times each occurs
BagOf(table) ==
    [v \in {DecimalValue(key) : key \in DOMAIN table} |->
        CountOf(table, {key \in DOMAIN table : DecimalValue(key) = v})]

\* every sequence in which each value occurs as often as the bag says
RECURSIVE Arrangements(_)
Arrangements(bag) ==
    LET left == {v \in DOMAIN bag : bag[v] > 0}
    IN  IF left = {} THEN {<<>>}
        ELSE UNION {{<<v>> \o rest : rest \in Arrangements([bag EXCEPT ![v] = @ - 1])} :
                        v \in left}

IsFrequencyTable(s) ==
    /\ ~s.hasValues /\ s.hasSeries
    /\ \A key \in DOMAIN s.variationalSeries :
          IsNumericKey(key) /\ s.variationalSeries[key] > 0

AsRawValues(s, raw) ==
    [s EXCEPT !.hasValues = TRUE, !.values = raw,
              !.hasSeries = FALSE, !.variationalSeries = <<>>]

\* C3: calculateStatistics gives the same params.sampleSize,
\* statistics.mean, statistics.biasedVariance and
\* statistics.unbiasedVariance for a frequency table (numeric keys,
\* positive counts) as for the raw values in which each key's value is
\* repeated count times, in any order; {1:2, 2:2, 3:2} gives n = 6, mean 2,
\* biased variance 2/3, unbiased variance 4/5.
C3_TableEqualsRawValues ==
    (pc = "print" /\ IsFrequencyTable(input))
        => /\ \A raw \in Arrangements(BagOf(input.variationalSeries)) :
                LET r == calculateStatistics(AsRawValues(input, raw))
                IN  /\ r.err = "none"
                    /\ r.sample.params.sampleSize = sample.params.sampleSize
                    /\ r.sample.statistics.mean = sample.statistics.mean
                    /\ r.sample.statistics.biasedVariance = sample.statistics.biasedVariance
                    /\ r.sample.statistics.unbiasedVariance = sample.statistics.unbiasedVariance
           /\ input.variationalSeries = ExampleTable
                => /\ sample.params.sampleSize = Int2F(6)
                   /\ sample.statistics.mean = Int2F(2)
                   /\ sample.statistics.biasedVariance = Num(2, 3)
                   /\ sample.statistics.unbiasedVariance = Num(4, 5)

\* the statistics of the table {1:2, 2:2, 3:2} have been computed
C3_Witness ==
    /\ pc = "print"
    /\ IsFrequencyTable(input)
    /\ input.variationalSeries = ExampleTable
    /\ sample.statistics.mean = Int2F(2)
    /\ sample.statistics.unbiasedVariance = Num(4, 5)

Present(v) == v # Absent

PcOf(name) ==
    CASE name = "meanConfidenceIntervalWithKnownVariance" -> "meanKnown"
      [] name = "meanConfidenceIntervalWithUnknownVariance" -> "meanUnknown"
      [] name = "varianceConfidenceInterval" -> "variance"

Order(at) ==
    CASE at = "meanKnown" -> 1
      [] at = "meanUnknown" -> 2
      [] at = "variance" -> 3
      [] at = "done" -> 4
      [] OTHER -> 0

\* the block of interval `name` has been passed without an exception
Passed(name) ==
    Order(IF pc = "error" THEN err.at ELSE pc) > Order(PcOf(name))

\* C6: when an interval's flag is set and a value it needs is absent, the
\* run ends in an error at that interval; no interval is ever printed
\* that was computed from an absent field.
C6_MissingFieldIsAnError ==
    \A name \in IntervalNames :
        LET complete == \A i \in 1..Len(FieldsOf(name)) :
                            IsFloat(Field(sample, FieldsOf(name)[i]))
        IN  /\ printed[name].status = "ok" => (complete /\ sample.flags[name] = "true")
            /\ (Passed(name) /\ sample.flags[name] = "true")
                  => (complete /\ printed[name].status = "ok")

\* the unknown-variance interval was asked for, no mean was ever computed,
\* and the run ended there with a type error
C6_Witness ==
    /\ pc = "error"
    /\ err = [what |-> "type_error", at |-> "meanUnknown"]
    /\ sample.flags["meanConfidenceIntervalWithUnknownVariance"] = "true"
    /\ input.statistics.mean = Absent
    /\ sample.statistics.mean = Null
    /\ printed["meanConfidenceIntervalWithUnknownVariance"] = NotPrinted

\* C7: for a dataset with neither values nor variationalSeries, whatever
\* its params, calculateStatistics raises no error, computes no mean and no
\* variance from data and leaves the statistics block without mean, and
\* the run goes on to the presentation step.
C7_NoDataIsNoError ==
    (~BeforeStatistics /\ ~input.hasValues /\ ~input.hasSeries)
        => /\ err.at # "calculateStatistics"
           /\ pc = "print" => sample.statistics.mean = Absent

\* C9: when the dataset is a frequency table with a key that is not
\* wholly a number ("1abc", the empty key, ...), calculateStatistics fails
\* with a parse error and writes no statistics.mean, no
\* statistics.biasedVariance and no params.sampleSize.
C9_NonNumericKeyIsParseError ==
    (/\ ~BeforeStatistics
     /\ ~input.hasValues /\ input.hasSeries
     /\ \E key \in DOMAIN input.variationalSeries : ~IsNumericKey(key))
        => /\ err = [what |-> "invalid_argument", at |-> "calculateStatistics"]
           /\ sample.statistics.mean = input.statistics.mean
           /\ sample.statistics.biasedVariance = input.statistics.biasedVariance
           /\ sample.params.sampleSize \in {input.params.sampleSize, Null}

\* C10: in loadSample an entry k with 1 <= k <= number of files selects
\* file k-1, a file is read only at an index in [0, number of files), and
\* an out-of-range entry ends the selection with an error instead of
\* another prompt, so the selection always terminates.
C10_OutOfRangeEndsSelection ==
    [][pc = "loadSample"
        => IF 0 <= sampleIndex' /\ sampleIndex' < nFiles
           THEN pc' = "read"
           ELSE pc' = "error"]_vars

====
